---- MODULE Spec2Model ----
(***************************************************************************)
(* findash-api: the authenticated transaction routes of src/server.ts and  *)
(* the bearer-token gate of src/middlewares/auth.ts.                       *)
(*                                                                         *)
(* JavaScript strings are sequences of one-character strings; a JSON body  *)
(* or a query string is a record holding exactly the supplied properties;  *)
(* a Date is [valid, t] with t in seconds since 1970-01-01T00:00:00Z; a    *)
(* number read by parseFloat is the decimal [m, e] standing for m / 10^e.  *)
(***************************************************************************)
EXTENDS Integers, Sequences, FiniteSets, TLC

VARIABLES
    transactions,   \* the Transaction table: a set of rows
    nextId,         \* number of row ids allocated so far
    tz,             \* the server's local time minus UTC, in seconds
    pc,             \* per request slot: "idle", "found" (between the lookup and the write), "done" (response sent)
    req,            \* per request slot: the request being (or last) handled
    res,            \* per request slot: the response sent
    probe,          \* input and result of the last pure-function application
    creator         \* history: row id -> the userId the row was inserted with

vars == <<transactions, nextId, tz, pc, req, res, probe, creator>>

-----------------------------------------------------------------------------
(* Strings *)

Str(s) == [i \in 1..Len(s) |-> SubSeq(s, i, i)]

Digit == {"0", "1", "2", "3", "4", "5", "6", "7", "8", "9"}

DigitVal(c) ==
    CASE c = "0" -> 0 [] c = "1" -> 1 [] c = "2" -> 2 [] c = "3" -> 3 [] c = "4" -> 4
      [] c = "5" -> 5 [] c = "6" -> 6 [] c = "7" -> 7 [] c = "8" -> 8 [] c = "9" -> 9

\* \s of a JavaScript regular expression and the characters trim() removes
WhiteSpace == {" ", "\t", "\r", "\n", "\f"}

\* the characters the regular expression's "." does not match
LineTerminator == {"\n", "\r"}

UpperCase == Str("ABCDEFGHIJKLMNOPQRSTUVWXYZ")
LowerCase == Str("abcdefghijklmnopqrstuvwxyz")

toLowerCase(s) ==
    [i \in 1..Len(s) |->
        IF \E k \in 1..Len(UpperCase) : UpperCase[k] = s[i]
        THEN LowerCase[CHOOSE k \in 1..Len(UpperCase) : UpperCase[k] = s[i]]
        ELSE s[i]]

includes(s, sub) ==
    \E i \in 0..(Len(s) - Len(sub)) : SubSeq(s, i + 1, i + Len(sub)) = sub

RECURSIVE split(_, _)
split(s, sep) ==
    IF \E i \in 1..Len(s) : s[i] = sep
    THEN LET i == CHOOSE i \in 1..Len(s) : s[i] = sep /\ \A j \in 1..(i - 1) : s[j] # sep
         IN  <<SubSeq(s, 1, i - 1)>> \o split(SubSeq(s, i + 1, Len(s)), sep)
    ELSE <<s>>

trim(s) ==
    IF \A i \in 1..Len(s) : s[i] \in WhiteSpace
    THEN <<>>
    ELSE LET a == CHOOSE i \in 1..Len(s) : s[i] \notin WhiteSpace /\ \A j \in 1..(i - 1) : s[j] \in WhiteSpace
             b == CHOOSE i \in 1..Len(s) : s[i] \notin WhiteSpace /\ \A j \in (i + 1)..Len(s) : s[j] \in WhiteSpace
         IN  SubSeq(s, a, b)

\* the length of the longest prefix of s from position p on whose characters are in set
RECURSIVE Run(_, _, _)
Run(s, p, set) ==
    IF p > Len(s) \/ s[p] \notin set THEN 0 ELSE 1 + Run(s, p + 1, set)

RECURSIVE DigitsToNat(_)
DigitsToNat(s) ==
    IF s = <<>> THEN 0 ELSE 10 * DigitsToNat(SubSeq(s, 1, Len(s) - 1)) + DigitVal(s[Len(s)])

NaN == [valid |-> FALSE, n |-> 0]

\* parseInt(s): leading white space, then the longest run of digits; NaN without one
parseInt(s) ==
    LET p == 1 + Run(s, 1, WhiteSpace)
        k == Run(s, p, Digit)
    IN  IF k = 0 THEN NaN ELSE [valid |-> TRUE, n |-> DigitsToNat(SubSeq(s, p, p + k - 1))]

-----------------------------------------------------------------------------
(* Dates *)

InvalidDate == [valid |-> FALSE, t |-> 0]

\* days from 1970-01-01 to the first day of month (1..12) of year y, plus day - 1
MakeDay(y, month, day) ==
    LET yy  == IF month <= 2 THEN y - 1 ELSE y
        era == yy \div 400
        yoe == yy - era * 400
        mp  == (month + 9) % 12
        doy == (153 * mp + 2) \div 5
        doe == yoe * 365 + yoe \div 4 - yoe \div 100 + doy
    IN  era * 146097 + doe - 719468 + (day - 1)

MakeTime(h, mi, s) == h * 3600 + mi * 60 + s

\* new Date(year, monthIndex, day, hours, minutes, seconds): local time, fields may overflow
NewDateLocal(year, monthIndex, day, h, mi, s) ==
    IF ~year.valid \/ ~monthIndex.valid
    THEN InvalidDate
    ELSE LET ym == year.n + (monthIndex.n \div 12)
             mn == monthIndex.n % 12
         IN  [valid |-> TRUE, t |-> MakeDay(ym, mn + 1, day) * 86400 + MakeTime(h, mi, s) - tz]

\* new Date(string) for the ISO forms YYYY-MM-DD and YYYY-MM-DDTHH:mm:ssZ (both UTC);
\* as in V8 a day up to 31 is accepted in every month and carries into the next
IsoDateShape(s) ==
    /\ Len(s) >= 10
    /\ \A i \in {1, 2, 3, 4, 6, 7, 9, 10} : s[i] \in Digit
    /\ s[5] = "-" /\ s[8] = "-"

IsoTimeShape(s) ==
    /\ Len(s) = 20
    /\ s[11] = "T" /\ s[14] = ":" /\ s[17] = ":" /\ s[20] = "Z"
    /\ \A i \in {12, 13, 15, 16, 18, 19} : s[i] \in Digit

NewDateFromString(s) ==
    IF ~IsoDateShape(s) \/ ~(Len(s) = 10 \/ IsoTimeShape(s))
    THEN InvalidDate
    ELSE LET y  == DigitsToNat(SubSeq(s, 1, 4))
             mo == DigitsToNat(SubSeq(s, 6, 7))
             d  == DigitsToNat(SubSeq(s, 9, 10))
             h  == IF Len(s) = 20 THEN DigitsToNat(SubSeq(s, 12, 13)) ELSE 0
             mi == IF Len(s) = 20 THEN DigitsToNat(SubSeq(s, 15, 16)) ELSE 0
             sc == IF Len(s) = 20 THEN DigitsToNat(SubSeq(s, 18, 19)) ELSE 0
         IN  IF mo \notin 1..12 \/ d \notin 1..31 \/ h > 23 \/ mi > 59 \/ sc > 59
             THEN InvalidDate
             ELSE [valid |-> TRUE, t |-> MakeDay(y, mo, d) * 86400 + MakeTime(h, mi, sc)]

-----------------------------------------------------------------------------
(* Principals and bearer tokens *)

Users == {"u1", "u2"}

Slots == {"r1", "r2"}

\* jwt.sign({ sub: user.id }, JWT_SECRET, { expiresIn: '1d' })
sign(sub) == "jwt." \o sub

\* the same payload one day later, and the same payload signed with another secret
Expired(sub) == "jwt." \o sub \o ".expired"
Forged(sub) == "jwt." \o sub \o ".forged"

\* jwt.verify(token, JWT_SECRET): the payload, or a throw (ok = FALSE) for an
\* undefined, empty, malformed, expired or wrongly signed token; a token is one
\* opaque character of the header. No second segment (undefined) is <<>> here.
verify(token) ==
    IF \E u \in Users : token = <<sign(u)>>
    THEN [ok |-> TRUE, sub |-> CHOOSE u \in Users : token = <<sign(u)>>]
    ELSE [ok |-> FALSE, sub |-> ""]

Attach(r, sub) ==
    [k \in DOMAIN r \cup {"userId"} |-> IF k = "userId" THEN sub ELSE r[k]]

NoBody == <<>>

Response(status, body, count) == [status |-> status, body |-> body, count |-> count]

\* authMiddleware(req, res, next): next = TRUE when the route handler is entered
\* with req.userId set; otherwise the 401 response
authMiddleware(r) ==
    IF r.authorization = <<>>
    THEN [next |-> FALSE, req |-> r, res |-> Response(401, NoBody, 0)]
    ELSE LET parts == split(r.authorization, " ")
             token == IF Len(parts) >= 2 THEN parts[2] ELSE <<>>
             payload == verify(token)
         IN  IF payload.ok
             THEN [next |-> TRUE, req |-> Attach(r, payload.sub), res |-> Response(0, NoBody, 0)]
             ELSE [next |-> FALSE, req |-> r, res |-> Response(401, NoBody, 0)]

Request(op, authorization, id, query, body) ==
    [op |-> op, authorization |-> authorization, id |-> id, query |-> query, body |-> body]

-----------------------------------------------------------------------------
(* The Transaction table *)

Has(o, f) == f \in DOMAIN o

\* !x for a string property, and for a number property
FalsyString(o, f) == ~Has(o, f) \/ Len(o[f]) = 0
FalsyNumber(o, f) == ~Has(o, f) \/ o[f].m = 0

\* @default(now()) of the createdAt column: the allocation tick stands for the time
createdAtDefault == nextId

\* creator after the insertion of rows
Inserted(rows) ==
    [id \in DOMAIN creator \cup {t.id : t \in rows} |->
        IF id \in DOMAIN creator THEN creator[id] ELSE (CHOOSE t \in rows : t.id = id).userId]

\* a lookup by id alone
findFirstById(id, userId) == {t \in transactions : t.id = id}

findFirst(id, userId) == {t \in transactions : t.id = id /\ t.userId = userId}

findUnique(id) == {t \in transactions : t.id = id}

\* the rows of set rows in every order that is descending by date
OrderByDateDesc(rows) ==
    {q \in [1..Cardinality(rows) -> rows] :
        /\ \A i, j \in DOMAIN q : i # j => q[i] # q[j]
        /\ \A i, j \in DOMAIN q : i < j => q[i].date >= q[j].date}

Finish(s, r, response) ==
    /\ pc' = [pc EXCEPT ![s] = "done"]
    /\ req' = [req EXCEPT ![s] = r]
    /\ res' = [res EXCEPT ![s] = response]

\* a request is taken by a free slot, once the last response sent has been
\* read (Close): a response changes nothing in the program, so this leaves out
\* no interleaving of lookups and writes
Accepting(s) == pc[s] = "idle" /\ \A r \in DOMAIN pc : pc[r] # "done"

-----------------------------------------------------------------------------
(* GET /transactions *)

\* the where clause's date window: none, a window, or an invalid Date that Prisma rejects
DateFilter(query) ==
    IF ~FalsyString(query, "year") /\ ~FalsyString(query, "month")
    THEN LET numericYear == parseInt(query.year)
             numericMonth == parseInt(query.month)
             monthIndex == [numericMonth EXCEPT !.n = @ - 1]
             startDate == NewDateLocal(numericYear, monthIndex, 1, 0, 0, 0)
             endDate == NewDateLocal(numericYear, numericMonth, 0, 23, 59, 59)
         IN  [on |-> TRUE, valid |-> startDate.valid /\ endDate.valid,
              gte |-> startDate.t, lte |-> endDate.t]
    ELSE [on |-> FALSE, valid |-> TRUE, gte |-> 0, lte |-> 0]

findMany(userId, filter) ==
    {t \in transactions :
        /\ t.userId = userId
        /\ filter.on => (t.date >= filter.gte /\ t.date <= filter.lte)}

List(s, authorization, query) ==
    /\ Accepting(s)
    /\ LET auth == authMiddleware(Request("list", authorization, 0, query, NoBody))
           filter == DateFilter(query)
       IN  IF ~auth.next
           THEN Finish(s, auth.req, auth.res)
           ELSE IF ~filter.valid
           THEN Finish(s, auth.req, Response(500, NoBody, 0))
           ELSE \E rows \in OrderByDateDesc(findMany(auth.req.userId, filter)) :
                    Finish(s, auth.req, Response(200, rows, 0))
    /\ UNCHANGED <<transactions, nextId, tz, probe, creator>>

-----------------------------------------------------------------------------
(* POST /transactions *)

MaxRows == 2

Create(s, authorization, body) ==
    /\ Accepting(s)
    /\ nextId < MaxRows
    /\ LET auth == authMiddleware(Request("create", authorization, 0, NoBody, body))
       IN  IF ~auth.next
           THEN Finish(s, auth.req, auth.res) /\ UNCHANGED <<transactions, nextId, creator>>
           ELSE IF \/ FalsyString(body, "title") \/ FalsyNumber(body, "amount")
                   \/ FalsyString(body, "type") \/ FalsyString(body, "category")
                   \/ FalsyString(body, "date")
           THEN Finish(s, auth.req, Response(400, NoBody, 0)) /\ UNCHANGED <<transactions, nextId, creator>>
           ELSE LET date == NewDateFromString(body.date)
                    transaction ==
                        [id |-> nextId + 1, userId |-> auth.req.userId, title |-> body.title,
                         amount |-> body.amount, type |-> body.type, category |-> body.category,
                         date |-> date.t, createdAt |-> createdAtDefault]
                IN  IF ~date.valid
                    THEN Finish(s, auth.req, Response(500, NoBody, 0)) /\ UNCHANGED <<transactions, nextId, creator>>
                    ELSE /\ transactions' = transactions \cup {transaction}
                         /\ nextId' = nextId + 1
                         /\ creator' = Inserted({transaction})
                         /\ Finish(s, auth.req, Response(201, <<transaction>>, 0))
    /\ UNCHANGED <<tz, probe>>

-----------------------------------------------------------------------------
(* PUT /transactions/:id and DELETE /transactions/:id: an ownership-checked
   lookup, then a separate write by id; other requests run between the two *)

Lookup(s, r) ==
    /\ Accepting(s)
    /\ LET auth == authMiddleware(r)
       IN  IF ~auth.next
           THEN Finish(s, auth.req, auth.res)
           ELSE IF findFirst(r.id, auth.req.userId) = {}
           THEN Finish(s, auth.req, Response(404, NoBody, 0))
           ELSE /\ pc' = [pc EXCEPT ![s] = "found"]
                /\ req' = [req EXCEPT ![s] = auth.req]
                /\ res' = [res EXCEPT ![s] = Response(0, NoBody, 0)]
    /\ UNCHANGED <<transactions, nextId, tz, probe, creator>>

UpdateFind(s, authorization, id, body) ==
    Lookup(s, Request("update", authorization, id, NoBody, body))

\* an update that writes every column, an empty value where nothing was supplied
UpdateDataAll(t, body, date) ==
    [t EXCEPT !.title = IF Has(body, "title") THEN body.title ELSE <<>>,
              !.amount = IF Has(body, "amount") THEN body.amount ELSE [m |-> 0, e |-> 0],
              !.type = IF Has(body, "type") THEN body.type ELSE "",
              !.category = IF Has(body, "category") THEN body.category ELSE "",
              !.date = IF ~FalsyString(body, "date") THEN date.t ELSE @]

\* data: { title, amount, type, category, date: date ? new Date(date) : undefined }
\* applied to row t: an undefined property leaves the column alone
UpdateData(t, body, date) ==
    [t EXCEPT !.title = IF Has(body, "title") THEN body.title ELSE @,
              !.amount = IF Has(body, "amount") THEN body.amount ELSE @,
              !.type = IF Has(body, "type") THEN body.type ELSE @,
              !.category = IF Has(body, "category") THEN body.category ELSE @,
              !.date = IF ~FalsyString(body, "date") THEN date.t ELSE @]

UpdateWrite(s) ==
    /\ pc[s] = "found"
    /\ \A r \in DOMAIN pc : pc[r] # "done"
    /\ req[s].op = "update"
    /\ LET body == req[s].body
           date == IF ~FalsyString(body, "date") THEN NewDateFromString(body.date) ELSE InvalidDate
           found == findUnique(req[s].id)
       IN  IF (~FalsyString(body, "date") /\ ~date.valid) \/ found = {}
           THEN Finish(s, req[s], Response(500, NoBody, 0)) /\ UNCHANGED transactions
           ELSE LET t == CHOOSE t \in found : TRUE
                    updatedTransaction == UpdateData(t, body, date)
                IN  /\ transactions' = (transactions \ {t}) \cup {updatedTransaction}
                    /\ Finish(s, req[s], Response(200, <<updatedTransaction>>, 0))
    /\ UNCHANGED <<nextId, tz, probe, creator>>

DeleteFind(s, authorization, id) ==
    Lookup(s, Request("delete", authorization, id, NoBody, NoBody))

\* a delete by owner instead of by id
DeleteWriteByOwner(s) ==
    /\ pc[s] = "found"
    /\ \A r \in DOMAIN pc : pc[r] # "done"
    /\ req[s].op = "delete"
    /\ LET found == findUnique(req[s].id)
       IN  IF found = {}
           THEN Finish(s, req[s], Response(500, NoBody, 0)) /\ UNCHANGED transactions
           ELSE /\ transactions' = {t \in transactions : t.userId # req[s].userId}
                /\ Finish(s, req[s], Response(204, NoBody, 0))
    /\ UNCHANGED <<nextId, tz, probe, creator>>

DeleteWrite(s) ==
    /\ pc[s] = "found"
    /\ \A r \in DOMAIN pc : pc[r] # "done"
    /\ req[s].op = "delete"
    /\ LET found == findUnique(req[s].id)
       IN  IF found = {}
           THEN Finish(s, req[s], Response(500, NoBody, 0)) /\ UNCHANGED transactions
           ELSE /\ transactions' = transactions \ found
                /\ Finish(s, req[s], Response(204, NoBody, 0))
    /\ UNCHANGED <<nextId, tz, probe, creator>>

-----------------------------------------------------------------------------
(* POST /transactions/import *)

AmountChar == Digit \cup {",", "."}

\* \s*-\s*R\$\s*([\d,.]+) at position p: each \s* is followed by a character that is
\* no white space, so only its longest run can match
MatchTail(line, p) ==
    LET dash == p + Run(line, p, WhiteSpace)
        r == dash + 1 + Run(line, dash + 1, WhiteSpace)
        from == r + 2 + Run(line, r + 2, WhiteSpace)
        len == Run(line, from, AmountChar)
    IN  [ok |-> /\ dash <= Len(line) /\ line[dash] = "-"
                /\ r + 1 <= Len(line) /\ line[r] = "R" /\ line[r + 1] = "$"
                /\ len > 0,
         from |-> from, len |-> len]

\* (.+?) from position from, tried up to position to and then one character
\* longer at a time: the last position of the shortest description after which
\* the rest of the pattern matches, 0 when there is none
RECURSIVE Lazy(_, _, _)
Lazy(line, from, to) ==
    IF to > Len(line) \/ line[to] \in LineTerminator THEN 0
    ELSE IF MatchTail(line, to + 1).ok THEN to
    ELSE Lazy(line, from, to + 1)

\* \s*(.+?) after the first dash: the \s* takes k characters, then one fewer at
\* a time; <<from, to>> of the first description found, <<0, 0>> when there is none
RECURSIVE Greedy(_, _, _)
Greedy(line, dash, k) ==
    IF k < 0 THEN <<0, 0>>
    ELSE LET from == dash + 1 + k
             to == Lazy(line, from, from)
         IN  IF to # 0 THEN <<from, to>> ELSE Greedy(line, dash, k - 1)

\* line.match(/^(\d{2}\/\d{2}\/\d{4})\s*-\s*(.+?)\s*-\s*R\$\s*([\d,.]+)/); null is
\* [ok |-> FALSE]
match(line) ==
    LET null == [ok |-> FALSE, dateStr |-> <<>>, description |-> <<>>, amountStr |-> <<>>]
        dash == 11 + Run(line, 11, WhiteSpace)
    IN  IF ~(/\ Len(line) >= 10
             /\ \A i \in {1, 2, 4, 5, 7, 8, 9, 10} : line[i] \in Digit
             /\ line[3] = "/" /\ line[6] = "/")
        THEN null
        ELSE IF dash > Len(line) \/ line[dash] # "-"
        THEN null
        ELSE LET description == Greedy(line, dash, Run(line, dash + 1, WhiteSpace))
                 tail == MatchTail(line, description[2] + 1)
             IN  IF description[2] = 0
                 THEN null
                 ELSE [ok |-> TRUE,
                       dateStr |-> SubSeq(line, 1, 10),
                       description |-> SubSeq(line, description[1], description[2]),
                       amountStr |-> SubSeq(line, tail.from, tail.from + tail.len - 1)]

\* the categorisation with its first two rules in the other order
categorizeSwapped(description) ==
    LET lowerCaseDescription == toLowerCase(description)
    IN  IF includes(lowerCaseDescription, Str("uber")) \/ includes(lowerCaseDescription, Str("99"))
        THEN "Transporte"
        ELSE IF includes(lowerCaseDescription, Str("ifood")) \/ includes(lowerCaseDescription, Str("restaurante"))
        THEN "Alimentação"
        ELSE IF \/ includes(lowerCaseDescription, Str("netflix"))
                \/ includes(lowerCaseDescription, Str("spotify"))
                \/ includes(lowerCaseDescription, Str("disney+"))
        THEN "Assinaturas"
        ELSE IF includes(lowerCaseDescription, Str("aluguel")) \/ includes(lowerCaseDescription, Str("condominio"))
        THEN "Moradia"
        ELSE IF includes(lowerCaseDescription, Str("mercado")) \/ includes(lowerCaseDescription, Str("supermercado"))
        THEN "Supermercado"
        ELSE "Outros"

\* the automatic categorisation of a description
categorize(description) ==
    LET lowerCaseDescription == toLowerCase(description)
    IN  IF includes(lowerCaseDescription, Str("ifood")) \/ includes(lowerCaseDescription, Str("restaurante"))
        THEN "Alimentação"
        ELSE IF includes(lowerCaseDescription, Str("uber")) \/ includes(lowerCaseDescription, Str("99"))
        THEN "Transporte"
        ELSE IF \/ includes(lowerCaseDescription, Str("netflix"))
                \/ includes(lowerCaseDescription, Str("spotify"))
                \/ includes(lowerCaseDescription, Str("disney+"))
        THEN "Assinaturas"
        ELSE IF includes(lowerCaseDescription, Str("aluguel")) \/ includes(lowerCaseDescription, Str("condominio"))
        THEN "Moradia"
        ELSE IF includes(lowerCaseDescription, Str("mercado")) \/ includes(lowerCaseDescription, Str("supermercado"))
        THEN "Supermercado"
        ELSE "Outros"

\* s.replace(pattern, replacement) with a string pattern: the first occurrence only
replace(s, pattern, replacement) ==
    IF \E i \in 1..Len(s) : s[i] = pattern
    THEN LET i == CHOOSE i \in 1..Len(s) : s[i] = pattern /\ \A j \in 1..(i - 1) : s[j] # pattern
         IN  SubSeq(s, 1, i - 1) \o replacement \o SubSeq(s, i + 1, Len(s))
    ELSE s

RECURSIVE Pow10(_)
Pow10(e) == IF e = 0 THEN 1 ELSE 10 * Pow10(e - 1)

\* the decimal m / 10^e without trailing zeros in its fraction
RECURSIVE Decimal(_, _)
Decimal(m, e) ==
    IF e > 0 /\ m % 10 = 0 THEN Decimal(m \div 10, e - 1) ELSE [valid |-> TRUE, m |-> m, e |-> e]

\* parseFloat(s): the longest prefix digits [. digits]; NaN when it has no digit
parseFloat(s) ==
    LET i == Run(s, 1, Digit)
        dot == i + 1 <= Len(s) /\ s[i + 1] = "."
        f == IF dot THEN Run(s, i + 2, Digit) ELSE 0
    IN  IF i + f = 0
        THEN [valid |-> FALSE, m |-> 0, e |-> 0]
        ELSE Decimal(DigitsToNat(SubSeq(s, 1, i)) * Pow10(f) + DigitsToNat(SubSeq(s, i + 2, i + 1 + f)), f)

\* the entry pushed to transactionsToCreate for a matching line
Entry(m, userId) ==
    LET parts == split(m.dateStr, "/")
        day == parts[1]
        month == parts[2]
        year == parts[3]
        date == NewDateFromString(year \o <<"-">> \o month \o <<"-">> \o day)
        amount == parseFloat(replace(replace(m.amountStr, ".", <<>>), ",", <<".">>))
    IN  [valid |-> date.valid /\ amount.valid,
         title |-> m.description, amount |-> [m |-> amount.m, e |-> amount.e], type |-> "EXPENSE",
         category |-> categorize(m.description), date |-> date.t, userId |-> userId]

RECURSIVE filter(_)
filter(lines) ==
    IF lines = <<>> THEN <<>>
    ELSE IF trim(Head(lines)) # <<>> THEN <<Head(lines)>> \o filter(Tail(lines))
    ELSE filter(Tail(lines))

RECURSIVE transactionsToCreate(_, _)
transactionsToCreate(lines, userId) ==
    IF lines = <<>> THEN <<>>
    ELSE LET m == match(Head(lines))
         IN  IF m.ok
             THEN <<Entry(m, userId)>> \o transactionsToCreate(Tail(lines), userId)
             ELSE transactionsToCreate(Tail(lines), userId)

\* prisma.transaction.createMany({ data }): one row per entry, ids in input order
createMany(data) ==
    {[id |-> nextId + i, userId |-> data[i].userId, title |-> data[i].title,
      amount |-> data[i].amount, type |-> data[i].type, category |-> data[i].category,
      date |-> data[i].date, createdAt |-> createdAtDefault] : i \in 1..Len(data)}

Import(s, authorization, body) ==
    /\ Accepting(s)
    /\ LET auth == authMiddleware(Request("import", authorization, 0, NoBody, body))
       IN  IF ~auth.next
           THEN Finish(s, auth.req, auth.res) /\ UNCHANGED <<transactions, nextId, creator>>
           ELSE IF FalsyString(body, "textContent")
           THEN Finish(s, auth.req, Response(400, NoBody, 0)) /\ UNCHANGED <<transactions, nextId, creator>>
           ELSE LET lines == filter(split(body.textContent, "\n"))
                    data == transactionsToCreate(lines, auth.req.userId)
                IN  /\ nextId + Len(data) <= MaxRows
                    /\ IF \E i \in 1..Len(data) : ~data[i].valid
                       THEN Finish(s, auth.req, Response(500, NoBody, 0)) /\ UNCHANGED <<transactions, nextId, creator>>
                       ELSE /\ transactions' = transactions \cup createMany(data)
                            /\ nextId' = nextId + Len(data)
                            /\ creator' = Inserted(createMany(data))
                            /\ Finish(s, auth.req, Response(201, NoBody, Len(data)))
    /\ UNCHANGED <<tz, probe>>

-----------------------------------------------------------------------------
(* The response has been sent: the slot is free for the next request *)

NoRequest == Request("none", <<>>, 0, NoBody, NoBody)

NoResponse == Response(0, NoBody, 0)

NoProbe == [kind |-> "none", input |-> <<>>, output |-> ""]

Close(s) ==
    /\ pc[s] = "done"
    /\ pc' = [pc EXCEPT ![s] = "idle"]
    /\ req' = [req EXCEPT ![s] = NoRequest]
    /\ res' = [res EXCEPT ![s] = NoResponse]
    /\ UNCHANGED <<transactions, nextId, tz, probe, creator>>

Start(zones) ==
    /\ transactions = {}
    /\ nextId = 0
    /\ tz \in zones
    /\ pc = [s \in Slots |-> "idle"]
    /\ req = [s \in Slots |-> NoRequest]
    /\ res = [s \in Slots |-> NoResponse]
    /\ probe = NoProbe
    /\ creator = <<>>

-----------------------------------------------------------------------------
(* Requests of two principals, interleaved *)

Bearer(u) == Str("Bearer ") \o <<sign(u)>>

Ids == 1..MaxRows

Lunch ==
    [title |-> Str("Lunch"), amount |-> [m |-> 125, e |-> 1], type |-> "EXPENSE",
     category |-> "Food", date |-> Str("2025-09-05")]

Edit == [amount |-> [m |-> 0, e |-> 0], category |-> "Home", date |-> Str("2025-10-01")]

\* a partial update, and one that supplies nothing
Edits == <<Edit, NoBody>>

Statement == [textContent |-> Str("06/09/2025 - Uber Viagem - R$ 23,00")]

Init == Start({0})

Next ==
    \E s \in Slots :
        \/ \E u \in Users : List(s, Bearer(u), NoBody)
        \/ \E u \in Users : Create(s, Bearer(u), Lunch)
        \/ \E u \in Users : Import(s, Bearer(u), Statement)
        \/ \E u \in Users, id \in Ids, i \in DOMAIN Edits : UpdateFind(s, Bearer(u), id, Edits[i])
        \/ UpdateWrite(s)
        \/ \E u \in Users, id \in Ids : DeleteFind(s, Bearer(u), id)
        \/ DeleteWrite(s)
        \/ Close(s)

Spec == Init /\ [][Next]_vars

-----------------------------------------------------------------------------
(* Authorization headers of every shape against every protected route *)

Headers ==
    << <<>>,                                    \* no Authorization header
       Str("Bearer"),                           \* no token segment
       Str("Bearer "),                          \* an empty token segment
       Str("Bearer ") \o <<Forged("u1")>>,      \* invalid signature
       Str("Bearer ") \o <<Expired("u1")>>,     \* expired
       Str("Basic ") \o <<sign("u1")>>,         \* another scheme before a live token
       Str("Basic dTE6cHc="),                     \* another scheme, no token
       <<sign("u1")>>,                          \* a live token without a scheme
       Bearer("u1") >>

NextAuth ==
    \E s \in Slots, h \in DOMAIN Headers :
        \/ List(s, Headers[h], NoBody)
        \/ Create(s, Headers[h], Lunch)
        \/ Import(s, Headers[h], Statement)
        \/ \E id \in Ids : UpdateFind(s, Headers[h], id, Edit)
        \/ UpdateWrite(s)
        \/ \E id \in Ids : DeleteFind(s, Headers[h], id)
        \/ DeleteWrite(s)
        \/ Close(s)

SpecAuth == Init /\ [][NextAuth]_vars

-----------------------------------------------------------------------------
(* Creation with every combination of supplied fields *)

\* what a body may carry for each field: <<>> when the field is not supplied
Titles == {<<>>, <<Str("Lunch")>>}
Amounts == {<<>>, <<[m |-> 0, e |-> 0]>>, <<[m |-> 125, e |-> 1]>>}
Types == {<<>>, <<"INCOME">>, <<"EXPENSE">>}
Categories == {<<>>, <<"Food">>}
Dates == {<<>>, <<Str("2025-09-05")>>}

Body(title, amount, type, category, date) ==
    LET given == [title |-> title, amount |-> amount, type |-> type,
                  category |-> category, date |-> date]
    IN  [f \in {g \in DOMAIN given : given[g] # <<>>} |-> given[f][1]]

NextCreate ==
    \E s \in Slots :
        \/ \E u \in Users : List(s, Bearer(u), NoBody)
        \/ \E u \in Users, title \in Titles, amount \in Amounts, type \in Types,
              category \in Categories, date \in Dates :
               Create(s, Bearer(u), Body(title, amount, type, category, date))
        \/ Close(s)

SpecCreate == Init /\ [][NextCreate]_vars

-----------------------------------------------------------------------------
(* Month listings on servers in two time zones *)

\* UTC, and UTC-03:00 (America/Sao_Paulo)
TimeZones == {0, -10800}

Days ==
    << Str("2025-08-31"), Str("2025-09-01"), Str("2025-09-05"),
       Str("2025-09-30T23:59:59Z"), Str("2025-10-01") >>

Queries ==
    << NoBody,
       [year |-> Str("2025")],
       [month |-> Str("9")],
       [year |-> Str("2025"), month |-> Str("9")],
       [year |-> Str("2025"), month |-> Str("09")],
       [year |-> Str("2025"), month |-> Str("10")] >>

NextList ==
    \E s \in Slots, u \in Users :
        \/ \E d \in DOMAIN Days : Create(s, Bearer(u), [Lunch EXCEPT !.date = Days[d]])
        \/ \E q \in DOMAIN Queries : List(s, Bearer(u), Queries[q])
        \/ Close(s)

InitList == Start(TimeZones)

SpecList == InitList /\ [][NextList]_vars

-----------------------------------------------------------------------------
(* Statement imports *)

MaxLines == 2

Lines ==
    << Str("05/09/2025 - Ifood Delivery - R$ 45,90"),
       Str("Garbage line"),
       Str("06/09/2025 - Uber Viagem - R$ 23,00"),
       Str("   "),
       Str("07/09/2025 - Aluguel - R$ 1.234.567,89"),
       Str("31/13/2025 - Netflix - R$ 39,90"),
       Str("08/09/2025 - Mercado - Centro - R$ 1.250,00\r") >>

RECURSIVE join(_, _)
join(lines, sep) ==
    IF lines = <<>> THEN <<>>
    ELSE IF Len(lines) = 1 THEN lines[1]
    ELSE lines[1] \o <<sep>> \o join(Tail(lines), sep)

\* the text whose lines are Lines[pick[1]], Lines[pick[2]], ...
Text(pick) == join([i \in DOMAIN pick |-> Lines[pick[i]]], "\n")

NextImport ==
    \E s \in Slots, u \in Users :
        \/ \E n \in 0..MaxLines : \E pick \in [1..n -> DOMAIN Lines] :
               Import(s, Bearer(u), [textContent |-> Text(pick)])
        \/ Import(s, Bearer(u), NoBody)
        \/ List(s, Bearer(u), NoBody)
        \/ Close(s)

SpecImport == Init /\ [][NextImport]_vars

-----------------------------------------------------------------------------
(* The categoriser applied to descriptions made of up to MaxWords words *)

MaxWords == 2

Words ==
    << Str("iFood"), Str("RESTAURANTE"), Str("Uber"), Str("99"), Str("9"), Str("Netflix"),
       Str("spotify"), Str("Disney+"), Str("Disney"), Str("Aluguel"), Str("condominio"),
       Str("Mercado"), Str("SUPERMERCADO"), Str("Padaria") >>

Description(pick) == join([i \in DOMAIN pick |-> Words[pick[i]]], " ")

Categorize(description) ==
    /\ probe = NoProbe
    /\ probe' = [kind |-> "categorize", input |-> description, output |-> categorize(description)]
    /\ UNCHANGED <<transactions, nextId, tz, pc, req, res, creator>>

NextCategorizer ==
    \E n \in 1..MaxWords : \E pick \in [1..n -> DOMAIN Words] : Categorize(Description(pick))

SpecCategorizer == Init /\ [][NextCategorizer]_vars

-----------------------------------------------------------------------------
(* Steps of a request slot, as seen from one state to the next *)

\* slot s takes a request and runs it up to its first write or its response
Enters(s) == pc[s] = "idle" /\ pc'[s] # "idle"

\* slot s sends its response
Completes(s) == pc[s] # "done" /\ pc'[s] = "done"

\* slot s takes the step
Acts(s) == pc'[s] # pc[s]

Stored(id) == \E t \in transactions : t.id = id

Fields == {"title", "amount", "type", "category", "date"}

-----------------------------------------------------------------------------
(* C1: a row created under owner A is out of reach of every other owner B: an
   Update or Delete of its id by B answers 404 at the lookup and changes
   nothing, no step of a request of B changes or removes the row, and no
   listing answered to B contains it *)
C1_OwnerIsolation ==
    [][\A s \in Slots :
        /\ ( /\ Enters(s)
             /\ req'[s].op \in {"update", "delete"}
             /\ Has(req'[s], "userId")
             /\ req'[s].id \in DOMAIN creator
             /\ creator[req'[s].id] # req'[s].userId )
           => (pc'[s] = "done" /\ res'[s].status = 404 /\ transactions' = transactions)
        /\ Acts(s)
           => \A t \in transactions :
                  (~Has(req'[s], "userId") \/ creator[t.id] # req'[s].userId) => t \in transactions'
        /\ (Completes(s) /\ req'[s].op = "list" /\ res'[s].status = 200)
           => \A i \in DOMAIN res'[s].body : creator[res'[s].body[i].id] = req'[s].userId
      ]_vars

\* B has asked to update or delete a row that A created and that is still stored, and got 404
C1_Witness ==
    \E s \in Slots :
        /\ pc[s] = "done"
        /\ req[s].op \in {"update", "delete"}
        /\ Has(req[s], "userId")
        /\ res[s].status = 404
        /\ \E t \in transactions :
               t.id = req[s].id /\ t.userId = creator[t.id] /\ t.userId # req[s].userId

-----------------------------------------------------------------------------
(* C9: two concurrent Update or Delete requests of the owner against one row
   never get a conflict signal: each ends in success or in NotFound, never in
   Internal *)
C9_NoConflictSignal ==
    \A s \in Slots :
        (pc[s] = "done" /\ req[s].op \in {"update", "delete"})
            => res[s].status \in {200, 204, 404}

-----------------------------------------------------------------------------
(* C8: the write of a Delete on a stored row removes exactly that row, which the
   caller owns, and answers 204 without content; a removed row never comes
   back: a later Update or Delete of its id, as of any id that is not stored,
   answers 404 and changes nothing, and no listing holds a row that is not
   stored *)
C8_Delete ==
    [][/\ \A s \in Slots :
            /\ ( /\ pc[s] = "found" /\ Completes(s)
                 /\ req[s].op = "delete"
                 /\ Stored(req[s].id) )
               => /\ res'[s].status = 204 /\ res'[s].body = NoBody
                  /\ transactions' = {t \in transactions : t.id # req[s].id}
                  /\ \A t \in transactions : t.id = req[s].id => t.userId = req[s].userId
            /\ ( /\ Enters(s)
                 /\ req'[s].op \in {"update", "delete"}
                 /\ Has(req'[s], "userId")
                 /\ ~Stored(req'[s].id) )
               => (pc'[s] = "done" /\ res'[s].status = 404 /\ transactions' = transactions)
            /\ (Completes(s) /\ req'[s].op = "list" /\ res'[s].status = 200)
               => \A i \in DOMAIN res'[s].body : res'[s].body[i] \in transactions
       /\ \A id \in DOMAIN creator : ~Stored(id) => \A t \in transactions' : t.id # id
      ]_vars

\* the owner of a row that was deleted has asked for it again and got 404,
\* while another row is still stored
C8_Witness ==
    \E s \in Slots :
        /\ pc[s] = "done"
        /\ req[s].op \in {"update", "delete"}
        /\ res[s].status = 404
        /\ req[s].id \in DOMAIN creator
        /\ creator[req[s].id] = req[s].userId
        /\ ~Stored(req[s].id)
        /\ transactions # {}

-----------------------------------------------------------------------------
(* C7: a successful Update leaves every field that the request did not supply,
   and always id, userId and createdAt, as they were, and leaves every other
   row alone; every stored row carries the userId it was created with *)
C7_UpdateFrame ==
    [][/\ \A s \in Slots :
            ( /\ pc[s] = "found" /\ Completes(s)
              /\ req[s].op = "update"
              /\ res'[s].status = 200 )
            => \E t \in transactions :
                   LET u == res'[s].body[1]
                   IN  /\ t.id = req[s].id
                       /\ transactions' = (transactions \ {t}) \cup {u}
                       /\ u.id = t.id /\ u.userId = t.userId /\ u.createdAt = t.createdAt
                       /\ \A f \in Fields : ~Has(req[s].body, f) => u[f] = t[f]
       /\ \A t \in transactions' : t.userId = creator'[t.id]
      ]_vars

\* an update that supplied some fields and not others has changed a row while
\* another row is stored
C7_Witness ==
    \E s \in Slots :
        /\ pc[s] = "done"
        /\ req[s].op = "update"
        /\ res[s].status = 200
        /\ \E f, g \in Fields : Has(req[s].body, f) /\ ~Has(req[s].body, g)
        /\ res[s].body[1] \in transactions
        /\ res[s].body[1].title = Str("Lunch")
        /\ res[s].body[1].category = "Home"
        /\ \E t \in transactions : t.id # req[s].id

-----------------------------------------------------------------------------
(* C2: a request to a protected route whose Authorization header is missing or
   is anything but the Bearer scheme followed by a live token is answered 401:
   no userId is attached, the handler is not entered and the table is unchanged *)
C2_Unauthorized ==
    [][\A s \in Slots :
        (Enters(s) /\ \A u \in Users : req'[s].authorization # Bearer(u))
            => /\ pc'[s] = "done"
               /\ res'[s].status = 401
               /\ ~Has(req'[s], "userId")
               /\ transactions' = transactions
      ]_vars

-----------------------------------------------------------------------------
(* C6: Create answers 400 and leaves the table unchanged exactly when one of
   the five fields is not supplied; with all five supplied, a zero amount
   included, it adds one row with the supplied values and the caller's userId
   and returns it *)
C6_Create ==
    [][\A s \in Slots :
        (Completes(s) /\ req'[s].op = "create")
            => LET body == req'[s].body
                   supplied == \A f \in Fields : Has(body, f)
               IN  /\ (res'[s].status = 400 /\ transactions' = transactions) <=> ~supplied
                   /\ supplied
                      => /\ res'[s].status = 201
                         /\ Len(res'[s].body) = 1
                         /\ LET t == res'[s].body[1]
                            IN  /\ t \notin transactions
                                /\ transactions' = transactions \cup {t}
                                /\ t.userId = req'[s].userId
                                /\ t.title = body.title /\ t.amount = body.amount
                                /\ t.type = body.type /\ t.category = body.category
                                /\ t.date = NewDateFromString(body.date).t
      ]_vars

-----------------------------------------------------------------------------
(* C3: List with year and month answers exactly the caller's rows dated from
   the first day of that month 00:00:00 to its last day 23:59:59, and all the
   caller's rows when either is missing, by date descending; a row's date is
   the calendar date it was created or imported with *)
DaysInMonth(y, m) ==
    IF m \in {4, 6, 9, 11} THEN 30
    ELSE IF m # 2 THEN 31
    ELSE IF (y % 4 = 0 /\ y % 100 # 0) \/ y % 400 = 0 THEN 29
    ELSE 28

InMonth(t, y, m) ==
    /\ t >= MakeDay(y, m, 1) * 86400
    /\ t <= MakeDay(y, m, DaysInMonth(y, m)) * 86400 + MakeTime(23, 59, 59)

C3_List ==
    [][\A s \in Slots :
        (Completes(s) /\ req'[s].op = "list" /\ Has(req'[s], "userId"))
            => LET query == req'[s].query
                   rows == res'[s].body
                   mine == {t \in transactions' : t.userId = req'[s].userId}
                   expected ==
                       IF Has(query, "year") /\ Has(query, "month")
                       THEN {t \in mine : InMonth(t.date, parseInt(query.year).n, parseInt(query.month).n)}
                       ELSE mine
               IN  /\ res'[s].status = 200
                   /\ {rows[i] : i \in DOMAIN rows} = expected
                   /\ Len(rows) = Cardinality(expected)
                   /\ \A i, j \in DOMAIN rows : i < j => rows[i].date >= rows[j].date
      ]_vars

-----------------------------------------------------------------------------
(* C5: the category of a description is the label of the first rule, in the
   order of the table, one of whose keywords occurs in it whatever the case of
   its letters, and Outros when no rule has one *)
Rules ==
    << [keywords |-> {Str("ifood"), Str("restaurante")}, label |-> "Alimentação"],
       [keywords |-> {Str("uber"), Str("99")}, label |-> "Transporte"],
       [keywords |-> {Str("netflix"), Str("spotify"), Str("disney+")}, label |-> "Assinaturas"],
       [keywords |-> {Str("aluguel"), Str("condominio")}, label |-> "Moradia"],
       [keywords |-> {Str("mercado"), Str("supermercado")}, label |-> "Supermercado"] >>

SameLetter(a, b) ==
    a = b \/ \E k \in DOMAIN UpperCase : {a, b} = {UpperCase[k], LowerCase[k]}

Occurs(keyword, description) ==
    \E p \in 0..(Len(description) - Len(keyword)) :
        \A j \in 1..Len(keyword) : SameLetter(description[p + j], keyword[j])

RuleMatches(i, description) == \E k \in Rules[i].keywords : Occurs(k, description)

FirstRuleLabel(description) ==
    IF \E i \in DOMAIN Rules : RuleMatches(i, description)
    THEN Rules[CHOOSE i \in DOMAIN Rules :
                   /\ RuleMatches(i, description)
                   /\ \A j \in 1..(i - 1) : ~RuleMatches(j, description)].label
    ELSE "Outros"

C5_Categorizer ==
    probe.kind = "categorize" => probe.output = FirstRuleLabel(probe.input)

\* a description in capitals and small letters with keywords of two rules, the
\* later rule's keyword first, got the earlier rule's label
C5_Witness ==
    /\ probe.kind = "categorize"
    /\ probe.input = Str("Uber iFood")
    /\ RuleMatches(1, probe.input) /\ RuleMatches(2, probe.input)
    /\ probe.output = "Alimentação"

-----------------------------------------------------------------------------
(* C4: Import of a non-empty text inserts one row per line that matches the
   statement pattern, in input order, owned by the caller, of type EXPENSE and
   of the category of the line's description; other lines add nothing and abort
   nothing, and the count reported is the number of rows added *)
RECURSIVE Matching(_)
Matching(lines) ==
    IF lines = <<>> THEN <<>>
    ELSE IF match(Head(lines)).ok THEN <<Head(lines)>> \o Matching(Tail(lines))
    ELSE Matching(Tail(lines))

C4_Import ==
    [][\A s \in Slots :
        (Completes(s) /\ req'[s].op = "import" /\ ~FalsyString(req'[s].body, "textContent"))
            => LET matching == Matching(split(req'[s].body.textContent, "\n"))
                   added == transactions' \ transactions
               IN  /\ res'[s].status = 201
                   /\ res'[s].count = Cardinality(added)
                   /\ Cardinality(added) = Len(matching)
                   /\ transactions \subseteq transactions'
                   /\ \A i \in DOMAIN matching :
                          \E t \in added :
                              /\ t.id = nextId + i
                              /\ t.userId = req'[s].userId
                              /\ t.type = "EXPENSE"
                              /\ t.title = match(matching[i]).description
                              /\ t.category = FirstRuleLabel(t.title)
      ]_vars

-----------------------------------------------------------------------------
(* C10: the amount stored for a matching line is the decimal value of its
   amount text with every "." removed and its "," read as the decimal point,
   and the date stored is the calendar date of the line's day, month and year *)
RECURSIVE Without(_, _)
Without(s, c) ==
    IF s = <<>> THEN <<>>
    ELSE IF Head(s) = c THEN Without(Tail(s), c)
    ELSE <<Head(s)>> \o Without(Tail(s), c)

DecimalValue(amountStr) ==
    LET digits == Without(amountStr, ".")
        whole == Run(digits, 1, Digit)
        fraction == IF whole < Len(digits) /\ digits[whole + 1] = ","
                    THEN Run(digits, whole + 2, Digit) ELSE 0
    IN  Decimal(DigitsToNat(SubSeq(digits, 1, whole)) * Pow10(fraction)
                    + DigitsToNat(SubSeq(digits, whole + 2, whole + 1 + fraction)), fraction)

CalendarDate(dateStr) ==
    MakeDay(DigitsToNat(SubSeq(dateStr, 7, 10)), DigitsToNat(SubSeq(dateStr, 4, 5)),
            DigitsToNat(SubSeq(dateStr, 1, 2))) * 86400

C10_Normalised ==
    [][\A s \in Slots :
        (Completes(s) /\ req'[s].op = "import" /\ res'[s].status = 201)
            => LET matching == Matching(split(req'[s].body.textContent, "\n"))
               IN  \A i \in DOMAIN matching :
                       \A t \in transactions' :
                           t.id = nextId + i
                               => LET value == DecimalValue(match(matching[i]).amountStr)
                                  IN  /\ t.amount = [m |-> value.m, e |-> value.e]
                                      /\ t.date = CalendarDate(match(matching[i]).dateStr)
      ]_vars

====
